---- MODULE Spec2Model ----
(***************************************************************************)
(* A model of the generational genetic-algorithm engine of                 *)
(* src/src/scripts/genetic_functions.js (lines 1-167, the variant with the *)
(* `ascending` flag) and of its evolution loop geneticAlgorithm            *)
(* (src/unnamed/part_000 lines 199-258).                                   *)
(*                                                                         *)
(* Numbers: a JavaScript number is a binary floating-point value; it is    *)
(* held as the rational <<n, d>> (d > 0, lowest terms) that it denotes, and *)
(* every + and / of the cumulative table rounds its result to the nearest  *)
(* value of SignificandBits significant bits, ties to even (the rule of    *)
(* IEEE 754, whose binary64 keeps 53 bits).  Fitness values are integers   *)
(* below 2^SignificandBits, which are exact.  Math.random() is             *)
(* a choice among representatives of [0, 1): one draw on each entry of the *)
(* cumulative table and one strictly between neighbouring entries.         *)
(* Arrays are sequences; JavaScript's 0-based indices are kept as they are *)
(* (index i of the code is element i + 1 of the sequence).                 *)
(* `undefined` is the value Undefined; an individual that was not          *)
(* evaluated is a record without the field fitness.                        *)
(***************************************************************************)
EXTENDS Integers, Sequences, FiniteSets, TLC

(***************************************************************************)
(* Bounds of the model.                                                    *)
(***************************************************************************)
\* the longest population handed to a library call
MaxLen == 3
\* the most children asked of a library call of crossover
MaxChildren == 2
\* the largest generation cap of a run
MaxGenerations == 3
\* the counter of consumed draws saturates here
MaxDraws == 3
MaxMocked == 2
\* the significant bits that a number keeps
SignificandBits == 8

(***************************************************************************)
(* JavaScript values.                                                      *)
(***************************************************************************)
Undefined == [undefined |-> TRUE]

\* individual.fitness : the property, or undefined when there is none
HasFitness(individual) == "fitness" \in DOMAIN individual

Range(s) == {s[i] : i \in DOMAIN s}

(***************************************************************************)
(* Rationals, and the rounded arithmetic of the JavaScript numbers.        *)
(***************************************************************************)
Abs(x) == IF x < 0 THEN -x ELSE x

RECURSIVE Gcd(_, _)
Gcd(a, b) == IF b = 0 THEN a ELSE Gcd(b, a % b)

\* the rational n / d in lowest terms, d # 0
Rat(n, d) ==
  LET g == Gcd(Abs(n), Abs(d))
      s == IF d < 0 THEN -1 ELSE 1
  IN  <<(s * n) \div g, (s * d) \div g>>

RatInt(x) == <<x, 1>>
RatAdd(p, q) == Rat(p[1] * q[2] + q[1] * p[2], p[2] * q[2])
RatDiv(p, q) == Rat(p[1] * q[2], p[2] * q[1])
RatLess(p, q) == p[1] * q[2] < q[1] * p[2]
RatLeq(p, q) == p[1] * q[2] <= q[1] * p[2]

RECURSIVE Pow2(_)
Pow2(k) == IF k = 0 THEN 1 ELSE 2 * Pow2(k - 1)

\* the integer nearest to n / d, the even one of two that are equally near
RoundHalfEven(n, d) ==
  LET q == n \div d
      r == n % d
  IN  IF 2 * r > d \/ (2 * r = d /\ q % 2 = 1) THEN q + 1 ELSE q

\* how often n / d must be halved to come below 2^SignificandBits
RECURSIVE Halvings(_, _)
Halvings(n, d) ==
  IF n >= Pow2(SignificandBits) * d THEN 1 + Halvings(n, 2 * d) ELSE 0

\* how often n / d must be doubled to reach 2^(SignificandBits - 1)
RECURSIVE Doublings(_, _)
Doublings(n, d) ==
  IF n < Pow2(SignificandBits - 1) * d THEN 1 + Doublings(2 * n, d) ELSE 0

\* the number that holds the non-negative rational x: x is scaled by a power
\* of two until its integer part has SignificandBits bits, and rounded there
Fl(x) ==
  IF x[1] = 0
    THEN x
    ELSE LET halvings == Halvings(x[1], x[2])
             doublings == Doublings(x[1], x[2])
         IN  IF halvings > 0
               THEN RatInt(RoundHalfEven(x[1], x[2] * Pow2(halvings))
                             * Pow2(halvings))
               ELSE Rat(RoundHalfEven(x[1] * Pow2(doublings), x[2]),
                        Pow2(doublings))

\* a + b and a / b of two numbers
FlAdd(a, b) == Fl(RatAdd(a, b))
FlDiv(a, b) == Fl(RatDiv(a, b))

\* Math.floor(x * rate) for an integer x and a rational rate
FloorTimes(x, rate) == (x * rate[1]) \div rate[2]

(***************************************************************************)
(* Array helpers of the JavaScript library.                                *)
(***************************************************************************)
\* array[index] with a 0-based index: undefined outside the array
At(array, index) ==
  IF index + 1 \in DOMAIN array THEN array[index + 1] ELSE Undefined

\* array.indexOf(x): the first 0-based position of x, -1 when there is none
IndexOf(array, x) ==
  IF \E i \in DOMAIN array : array[i] = x
    THEN (CHOOSE i \in DOMAIN array :
            /\ array[i] = x
            /\ \A j \in DOMAIN array : array[j] = x => i <= j) - 1
    ELSE -1

\* array.includes(x)
Includes(array, x) == \E i \in DOMAIN array : array[i] = x

\* Math.max(...array) and Math.min(...array) of a non-empty array of integers
MathMax(array) == CHOOSE m \in Range(array) : \A x \in Range(array) : x <= m
MathMin(array) == CHOOSE m \in Range(array) : \A x \in Range(array) : m <= x

\* faulty variant of FindIndex: an entry equal to the draw is found as well
FindIndexNotLess(weights, random_number) ==
  IF \E i \in DOMAIN weights : RatLeq(random_number, weights[i])
    THEN (CHOOSE i \in DOMAIN weights :
            /\ RatLeq(random_number, weights[i])
            /\ \A j \in DOMAIN weights :
                 RatLeq(random_number, weights[j]) => i <= j) - 1
    ELSE -1

\* weights.findIndex((f) => f > random_number): first 0-based index, or -1
FindIndex(weights, random_number) ==
  IF \E i \in DOMAIN weights : RatLess(random_number, weights[i])
    THEN (CHOOSE i \in DOMAIN weights :
            /\ RatLess(random_number, weights[i])
            /\ \A j \in DOMAIN weights :
                 RatLess(random_number, weights[j]) => i <= j) - 1
    ELSE -1

\* population.map((individual) => individual.fitness), all of them evaluated
FitnessValues(population) ==
  [i \in DOMAIN population |-> population[i].fitness]

AllPositive(individuals) ==
  \A i \in DOMAIN individuals : individuals[i].fitness > 0

Evaluated(population) ==
  \A i \in DOMAIN population : HasFitness(population[i])

\* array.lastIndexOf(x)
LastIndexOf(array, x) ==
  IF \E i \in DOMAIN array : array[i] = x
    THEN (CHOOSE i \in DOMAIN array :
            /\ array[i] = x
            /\ \A j \in DOMAIN array : array[j] = x => j <= i) - 1
    ELSE -1

\* faulty variant of fittestIndividual: lastIndexOf in place of indexOf
fittestIndividualLast(population, ascending) ==
  IF population = <<>> \/ ~Evaluated(population)
    THEN Undefined
    ELSE LET fitness == FitnessValues(population)
             index == IF ascending
                        THEN LastIndexOf(fitness, MathMax(fitness))
                        ELSE LastIndexOf(fitness, MathMin(fitness))
         IN  At(population, index)

(***************************************************************************)
(* fittestIndividual (genetic_functions.js 77-83).                         *)
(* Math.max() of no argument is -Infinity and Math.max of an undefined     *)
(* fitness is NaN: indexOf finds neither, returns -1, and population[-1]   *)
(* is undefined.                                                           *)
(***************************************************************************)
fittestIndividual(population, ascending) ==
  IF population = <<>> \/ ~Evaluated(population)
    THEN Undefined
    ELSE LET fitness == FitnessValues(population)
             index == IF ascending
                        THEN IndexOf(fitness, MathMax(fitness))
                        ELSE IndexOf(fitness, MathMin(fitness))
         IN  At(population, index)

(***************************************************************************)
(* relativeCumulativeFitness (genetic_functions.js 111-143).               *)
(***************************************************************************)
\* lines 115-118: shift by abs(min) when some value is negative
ShiftNegative(fitness) ==
  IF \E i \in DOMAIN fitness : fitness[i] < 0
    THEN LET min == MathMin(fitness)
         IN  [i \in DOMAIN fitness |-> fitness[i] + Abs(min)]
    ELSE fitness

\* faulty variant of ShiftZero: 1 is added to the values that are 0 only
ShiftZeroOnlyZeros(fitness) ==
  [i \in DOMAIN fitness |-> IF fitness[i] = 0 THEN 1 ELSE fitness[i]]

\* lines 120-122: add 1 to all values when some value is 0
ShiftZero(fitness) ==
  IF \E i \in DOMAIN fitness : fitness[i] = 0
    THEN [i \in DOMAIN fitness |-> fitness[i] + 1]
    ELSE fitness

\* faulty variant of Invert: the values are never inverted
InvertNever(fitness, ascending) ==
  [i \in DOMAIN fitness |-> RatInt(fitness[i])]

\* lines 124-126: 1 / value when ascending is false
Invert(fitness, ascending) ==
  IF ~ascending
    THEN [i \in DOMAIN fitness |-> FlDiv(RatInt(1), RatInt(fitness[i]))]
    ELSE [i \in DOMAIN fitness |-> RatInt(fitness[i])]

\* faulty variant of SumUpTo: the total is the last value
SumOfLast(values, k) == IF k = 0 THEN RatInt(0) ELSE values[k]

\* lines 128-131: fitness.reduce((total, individual) => total + individual, 0)
RECURSIVE SumUpTo(_, _)
SumUpTo(values, k) ==
  IF k = 0 THEN RatInt(0) ELSE FlAdd(SumUpTo(values, k - 1), values[k])

\* faulty variant of Cumulative: the previous sum is not added
CumulativeWithoutPrevious(relative_fitness, k) ==
  [i \in 1 .. k |-> relative_fitness[i]]

\* lines 136-142: the reduce that builds the cumulative sums,
\* element k is individual + (cumulative[index - 1] || 0)
RECURSIVE Cumulative(_, _)
Cumulative(relative_fitness, k) ==
  IF k = 0
    THEN <<>>
    ELSE LET cumulative == Cumulative(relative_fitness, k - 1)
             previous == IF k = 1 THEN RatInt(0) ELSE cumulative[k - 1]
         IN  Append(cumulative, FlAdd(relative_fitness[k], previous))

\* faulty variant of relativeCumulativeFitness: the values are not divided by
\* their sum
relativeCumulativeFitnessUnnormalised(population, ascending) ==
  LET fitness == Invert(ShiftZero(ShiftNegative(FitnessValues(population))),
                        ascending)
  IN  Cumulative(fitness, Len(fitness))

\* lines 111-143
relativeCumulativeFitness(population, ascending) ==
  LET fitness == Invert(ShiftZero(ShiftNegative(FitnessValues(population))),
                        ascending)
      total_fitness == SumUpTo(fitness, Len(fitness))
      relative_fitness ==
        [i \in DOMAIN fitness |-> FlDiv(fitness[i], total_fitness)]
  IN  Cumulative(relative_fitness, Len(relative_fitness))

(***************************************************************************)
(* The other library functions.                                            *)
(***************************************************************************)
\* the model's fitness function: the individual's value when no target is
\* given and the value plus the target when one is, as in the tests
\* (genetic_functions.test.js 24 and 45); a target is undefined or the
\* record [number |-> x] of a number x
fitness_function(individual, target_value) ==
  IF target_value = Undefined
    THEN individual.value
    ELSE individual.value + target_value.number

\* the fitness function throws for the individuals of these values
Throws(individual, fails) == individual.value \in fails

\* faulty variant of FirstThrow: an individual that throws is not noticed
FirstThrowUnnoticed(population, fails) == 0

\* the 1-based position of the first individual, in the order of
\* population.map, for which the fitness function throws; 0 when there is none
FirstThrow(population, fails) ==
  IF \E i \in DOMAIN population : Throws(population[i], fails)
    THEN CHOOSE i \in DOMAIN population :
           /\ Throws(population[i], fails)
           /\ \A j \in DOMAIN population :
                Throws(population[j], fails) => i <= j
    ELSE 0

\* faulty variant of evaluateFitness: the target is not handed on
evaluateFitnessWithoutTarget(population, target_value) ==
  [i \in DOMAIN population |->
     [value |-> population[i].value,
      fitness |-> fitness_function(population[i], Undefined)]]

\* evaluateFitness (genetic_functions.js 25-30): a new record per individual,
\* the individual's own properties and its fitness
evaluateFitness(population, target_value) ==
  [i \in DOMAIN population |->
     [value |-> population[i].value,
      fitness |-> fitness_function(population[i], target_value)]]

\* indices.map((index) => population[index]) (genetic_functions.js 102)
IndividualsAt(population, indices) ==
  [k \in DOMAIN indices |-> At(population, indices[k])]

\* Math.random(): one representative of every class of draws in [0, 1) that
\* the table tells apart (each table entry below 1, and a point between
\* every two neighbours among 0, the table entries and 1)
Draws(weights) ==
  LET marks == {RatInt(0), RatInt(1)} \cup Range(weights)
      neighbours ==
        {pair \in marks \X marks :
           /\ RatLess(pair[1], pair[2])
           /\ ~\E c \in marks : RatLess(pair[1], c) /\ RatLess(c, pair[2])}
      sums == {RatAdd(pair[1], pair[2]) : pair \in neighbours}
      mids == {RatDiv(sum, RatInt(2)) : sum \in sums}
  IN  {r \in marks \cup mids : RatLeq(RatInt(0), r) /\ RatLess(r, RatInt(1))}

\* the draws of the model's own operators: below and above every rate
ModelDraws == {RatInt(0), Rat(1, 2)}

\* the model's crossover function: the child's value is the sum of its
\* parents' values; it carries no fitness (genetic_functions.test.js 329-331)
crossover_function(parent1, parent2) ==
  [value |-> parent1.value + parent2.value]

\* the model's mutation function: each draw below the rate changes the value;
\* the result carries no fitness (genetic.test.js 27-37)
mutation_function(individual, mutation_rate, random_number) ==
  [value |-> IF RatLess(random_number, mutation_rate)
               THEN individual.value + 1
               ELSE individual.value]

\* faulty variant of mutate: the individuals are taken from the last to the
\* first
mutateReversed(population, mutation_rate, random_numbers) ==
  [i \in DOMAIN population |->
     mutation_function(population[Len(population) + 1 - i], mutation_rate,
                       random_numbers[i])]

\* mutate (genetic_functions.js 65-69)
mutate(population, mutation_rate, random_numbers) ==
  [i \in DOMAIN population |->
     mutation_function(population[i], mutation_rate, random_numbers[i])]

(***************************************************************************)
(* The state.                                                              *)
(***************************************************************************)
VARIABLES
  entry,           \* the exported function that was called
  args,            \* its arguments, for a call of a library function
  configuration,   \* geneticAlgorithm's configuration
  model,           \* geneticAlgorithm's model: the stop predicate
  pc,              \* the position in the code
  population,      \* geneticAlgorithm's population
  history,         \* geneticAlgorithm's history
  generation,      \* geneticAlgorithm's loop counter
  mating_pool,     \* geneticAlgorithm's mating pool
  next_generation, \* geneticAlgorithm's next generation
  logged,          \* the history last handed to the logging function
  crossing,        \* the running call of crossover
  new_population,  \* crossover's new_population
  sampling,        \* the running call of weightedSampleWithoutReplacement
  weights,         \* its table
  indices,         \* randomUniqueIndices' indices
  draws,           \* the draws of Math.random() consumed by the sampler
  mockRandom,      \* the values a test gave to mockRandom, the next one first
  legacy,          \* the legacy sampler that runs on the same draws
  calls,           \* how often each function of the model was invoked
  result,          \* the value returned
  error            \* the error thrown

vars == <<entry, args, configuration, model, pc, population, history,
          generation, mating_pool, next_generation, logged, crossing,
          new_population, sampling, weights, indices, draws, mockRandom,
          legacy, calls, result, error>>

runVars == <<population, history, generation, mating_pool, next_generation,
             logged>>
crossVars == <<crossing, new_population>>
sampleVars == <<sampling, weights, indices>>
constVars == <<entry, args, configuration, model>>
randomVars == <<draws, mockRandom, legacy>>

NoCall == [caller |-> "none"]
NoResult == [returned |-> FALSE]
Returned(value) == [returned |-> TRUE, value |-> value]
NoError == "none"
\* no legacy sampler runs
NoLegacy ==
  [pc |-> "none", n |-> 0, weights |-> <<>>, indices |-> <<>>, draws |-> 0,
   result |-> NoResult, error |-> NoError]

\* the errors thrown
InsufficientPopulation == "population size must be greater than 1"
SampleTooLarge == "n must be less than or equal to the population size"
SampleOutOfRange == "n must be between 0 and the population size"
TypeError == "TypeError: cannot read properties of undefined"
FitnessError == "thrown by the fitness function"

Bump(counter, k) == [calls EXCEPT ![counter] = @ + k]

\* throw new Error(message): nothing else changes
Throw(message) ==
  /\ pc' = "error"
  /\ error' = message

(***************************************************************************)
(* weightedSampleWithoutReplacement and randomUniqueIndices                *)
(* (genetic_functions.js 92-103 and 151-167).                              *)
(***************************************************************************)
\* faulty variant of SampleStart: a negative n is not rejected
SampleStartNegativeUnchecked(sampled, n, ascending, caller) ==
  IF n > Len(sampled)
    THEN Throw(SampleTooLarge) /\ UNCHANGED sampleVars
    ELSE IF Includes(sampled, Undefined)
      THEN Throw(TypeError) /\ UNCHANGED sampleVars
      ELSE /\ sampling' = [caller |-> caller, population |-> sampled, n |-> n]
           /\ weights' = relativeCumulativeFitness(sampled, ascending)
           /\ indices' = <<>>
           /\ pc' = "randomUniqueIndices"
           /\ error' = error

\* the call up to the first test of the while loop: lines 94-96 throw when n
\* exceeds the population, line 98 builds the table (line 113 reads the
\* fitness of every individual, a TypeError for one that is undefined), lines
\* 154-156 throw when n is negative or exceeds the table, line 158 starts
\* with no index
SampleStart(sampled, n, ascending, caller) ==
  IF n > Len(sampled)
    THEN Throw(SampleTooLarge) /\ UNCHANGED sampleVars
    ELSE IF Includes(sampled, Undefined)
      THEN Throw(TypeError) /\ UNCHANGED sampleVars
      ELSE LET table == relativeCumulativeFitness(sampled, ascending)
           IN  IF n < 0 \/ n > Len(table)
                 THEN Throw(SampleOutOfRange) /\ UNCHANGED sampleVars
                 ELSE /\ sampling' = [caller |-> caller,
                                      population |-> sampled,
                                      n |-> n]
                      /\ weights' = table
                      /\ indices' = <<>>
                      /\ pc' = "randomUniqueIndices"
                      /\ error' = error

\* the sampler has returned: its frame is gone
SampleEnd ==
  /\ sampling' = NoCall
  /\ weights' = <<>>
  /\ indices' = <<>>

Saturated(counter) == IF counter < MaxDraws THEN counter + 1 ELSE MaxDraws

\* faulty variant of PushUnlessIncluded: a new index replaces the indices
PushAlone(array, index) ==
  IF ~Includes(array, index) THEN <<index>> ELSE array

\* faulty variant of PushUnlessIncluded: every index is pushed
PushAlways(array, index) == Append(array, index)

\* one pass of the while loop (lines 159-165): a draw, the first index whose
\* weight exceeds it, pushed unless it is already there
PushUnlessIncluded(array, index) ==
  IF ~Includes(array, index) THEN Append(array, index) ELSE array

(***************************************************************************)
(* The legacy sampler, whose table starts with 0                            *)
(* (genetic_functions.js 244-301).  It has the names of the sampler above   *)
(* in the source.                                                           *)
(***************************************************************************)
\* faulty variant of legacyCumulative: the store starts empty
RECURSIVE legacyCumulativeNoSentinel(_, _)
legacyCumulativeNoSentinel(relative_fitness, k) ==
  IF k = 0
    THEN <<>>
    ELSE LET store == legacyCumulativeNoSentinel(relative_fitness, k - 1)
             last == IF k = 1 THEN RatInt(0) ELSE store[k - 1]
         IN  Append(store, FlAdd(last, relative_fitness[k]))

\* lines 274-277: the reduce that starts from [0],
\* element index + 1 is store[index] + current
RECURSIVE legacyCumulative(_, _)
legacyCumulative(relative_fitness, k) ==
  IF k = 0
    THEN <<RatInt(0)>>
    ELSE LET store == legacyCumulative(relative_fitness, k - 1)
         IN  Append(store, FlAdd(store[k], relative_fitness[k]))

\* lines 264-278, for fitness values that are all positive
legacyRelativeCumulativeFitness(sampled) ==
  LET fitness == [i \in DOMAIN sampled |-> RatInt(sampled[i].fitness)]
      total_fitness == SumUpTo(fitness, Len(fitness))
      relative_fitness ==
        [i \in DOMAIN fitness |-> FlDiv(fitness[i], total_fitness)]
  IN  legacyCumulative(relative_fitness, Len(relative_fitness))

\* faulty variant of legacyIndividualsAt: the index is not lowered
legacyIndividualsAtIndex(sampled, legacy_indices) ==
  [k \in DOMAIN legacy_indices |-> At(sampled, legacy_indices[k])]

\* line 256: indices.map((index) => population[index - 1])
legacyIndividualsAt(sampled, legacy_indices) ==
  [k \in DOMAIN legacy_indices |-> At(sampled, legacy_indices[k] - 1)]

\* the legacy call up to the first test of the while loop: lines 246-248
\* throw when n exceeds the population, line 250 builds the table, lines
\* 288-290 throw when n is negative or exceeds the table, line 292 starts
\* with no index
legacySampleStart(sampled, n) ==
  IF n > Len(sampled)
    THEN [NoLegacy EXCEPT !.pc = "error", !.error = SampleTooLarge]
    ELSE LET table == legacyRelativeCumulativeFitness(sampled)
         IN  IF n < 0 \/ n > Len(table)
               THEN [NoLegacy EXCEPT !.pc = "error",
                                     !.error = SampleOutOfRange]
               ELSE [NoLegacy EXCEPT !.pc = "randomUniqueIndices",
                                     !.n = n,
                                     !.weights = table]

\* one pass of the legacy while loop (lines 293-299) when the legacy sampler
\* is in its loop
legacyDraw(frame, random_number) ==
  IF frame.pc = "randomUniqueIndices" /\ Len(frame.indices) < frame.n
    THEN LET index == FindIndex(frame.weights, random_number)
         IN  [frame EXCEPT !.indices = PushUnlessIncluded(@, index),
                           !.draws = Saturated(@)]
    ELSE frame

\* the legacy loop is over (line 293 is false): lines 300 and 256
legacySampleEnd(frame, sampled) ==
  IF frame.pc = "randomUniqueIndices" /\ ~(Len(frame.indices) < frame.n)
    THEN [frame EXCEPT
            !.pc = "done",
            !.result = Returned(legacyIndividualsAt(sampled, frame.indices))]
    ELSE frame

\* Math.random(): any draw, or the next value of jest-mock-random when the
\* test has mocked it
MathRandom(table) ==
  IF mockRandom = <<>> THEN Draws(table) ELSE {Head(mockRandom)}

\* jest-mock-random returns its values in turn and starts again after the
\* last one
Cycle(values) ==
  IF values = <<>> THEN <<>> ELSE Append(Tail(values), Head(values))

Draw ==
  /\ pc = "randomUniqueIndices"
  /\ Len(indices) < sampling.n
  /\ \E random_number \in MathRandom(weights \o legacy.weights) :
       LET index == FindIndex(weights, random_number)
       IN  /\ indices' = PushUnlessIncluded(indices, index)
           /\ legacy' = legacyDraw(legacy, random_number)
  /\ draws' = Saturated(draws)
  /\ mockRandom' = Cycle(mockRandom)
  /\ UNCHANGED <<constVars, runVars, crossVars, sampling, weights, pc, calls,
                 result, error>>

\* the loop is over (line 159 is false): lines 166 and 102
SampleDone == pc = "randomUniqueIndices" /\ ~(Len(indices) < sampling.n)

Sample == IndividualsAt(sampling.population, indices)

(***************************************************************************)
(* crossover (genetic_functions.js 40-56).                                 *)
(***************************************************************************)
\* faulty variant of CrossoverStart: a pool of fewer than two is not rejected
CrossoverStartUnchecked(pool, n, ascending, caller) ==
  /\ crossing' = [caller |-> caller,
                  population |-> pool,
                  n |-> n,
                  ascending |-> ascending]
  /\ new_population' = <<>>
  /\ pc' = "crossover"
  /\ error' = error

\* lines 42-45: the error for fewer than two individuals, else no child yet
CrossoverStart(pool, n, ascending, caller) ==
  IF Len(pool) < 2
    THEN Throw(InsufficientPopulation) /\ UNCHANGED crossVars
    ELSE /\ crossing' = [caller |-> caller,
                         population |-> pool,
                         n |-> n,
                         ascending |-> ascending]
         /\ new_population' = <<>>
         /\ pc' = "crossover"
         /\ error' = error

\* line 46 is true: lines 48-52 sample two parents
CrossoverSample ==
  /\ pc = "crossover"
  /\ Len(new_population) < crossing.n
  /\ SampleStart(crossing.population, 2, crossing.ascending, "crossover")
  /\ UNCHANGED <<constVars, runVars, crossVars, randomVars, calls, result>>

\* the two parents are there: line 53 calls the crossover function and
\* pushes their child; the function reads the value of both parents, a
\* TypeError for a parent that is undefined
CrossoverChild ==
  /\ SampleDone
  /\ sampling.caller = "crossover"
  /\ calls' = Bump("crossover_function", 1)
  /\ IF Includes(Sample, Undefined)
       THEN /\ Throw(TypeError)
            /\ UNCHANGED <<new_population, sampleVars>>
       ELSE /\ new_population' =
                 Append(new_population,
                        crossover_function(Sample[1], Sample[2]))
            /\ pc' = "crossover"
            /\ SampleEnd
            /\ error' = error
  /\ UNCHANGED <<constVars, runVars, crossing, randomVars, result>>

\* line 46 is false: line 55 returns the children
CrossoverDone == pc = "crossover" /\ ~(Len(new_population) < crossing.n)

CrossoverEnd ==
  /\ crossing' = NoCall
  /\ new_population' = <<>>

(***************************************************************************)
(* geneticAlgorithm (part_000 199-258).                                    *)
(***************************************************************************)
\* the rates of a configuration, as rationals
SurvivalRates == {Rat(2, 3), RatInt(1)}
ReproductionRates == {Rat(1, 2), RatInt(1)}
\* a mutation rate of 0 never mutates and one of 1 always does
MutationRates == {RatInt(0), RatInt(1)}

\* the values of the individuals that the model creates
Genes == {0, 1}

\* the configured population sizes: none, too few to breed, and a pair (the
\* growing configurations go on to populations of 3, 4 and 6)
PopulationSizes == {0, 1, 2}

\* reproduction_rate = 1.5, the default (part_000 207), makes every generation
\* larger than the one before: it is run from two individuals that all survive
GrowingConfigurations ==
  [population_size : {2},
   generations : 0 .. MaxGenerations,
   mutation_rate : MutationRates,
   survival_rate : {RatInt(1)},
   reproduction_rate : {Rat(3, 2)},
   ascending : BOOLEAN]

\* a negative survival_rate asks the sampler for a negative number of
\* survivors
NegativeSurvivalConfigurations ==
  [population_size : {2},
   generations : 1 .. MaxGenerations,
   mutation_rate : {RatInt(0)},
   survival_rate : {Rat(-1, 2)},
   reproduction_rate : {RatInt(1)},
   ascending : BOOLEAN]

Configurations ==
  [population_size : PopulationSizes,
   generations : 0 .. MaxGenerations,
   mutation_rate : MutationRates,
   survival_rate : SurvivalRates,
   reproduction_rate : ReproductionRates,
   ascending : BOOLEAN]
    \cup GrowingConfigurations
    \cup NegativeSurvivalConfigurations

\* the model's stop predicate: never (BaseClass.stop_function, part_002
\* 17-19) or fitness === target (genetic.test.js 38-40); its fitness
\* function throws for no individual or, in one model, for those of value 1
\* (BaseClass.fitness_function, part_002 39-41, throws for every one)
Models ==
  {[stops |-> FALSE, target |-> 0, fails |-> {}]}
    \cup {[stops |-> TRUE, target |-> t, fails |-> {}] : t \in Genes}
    \cup {[stops |-> FALSE, target |-> 0, fails |-> {1}]}

\* faulty variant of stop_function: the default predicate stops as well
StopIgnoresModel(fitness_value) == fitness_value = model.target

stop_function(fitness_value) == model.stops /\ fitness_value = model.target

\* the model's creation function: population_size individuals, not evaluated
creation_function(population_size) ==
  {[i \in 1 .. population_size |-> [value |-> genes[i]]] :
     genes \in [1 .. population_size -> Genes]}

NoCalls ==
  [fitness_function |-> 0, logging_function |-> 0, stop_function |-> 0,
   crossover_function |-> 0, mutation_function |-> 0]

\* faulty variant of HistoryPush: the record replaces the history
HistoryPushReplaces(records, evaluated) == <<evaluated>>

\* faulty variant of NumberOfChildren: of the configured population size
NumberOfChildrenOfConfigured(current, reproduction_rate) ==
  FloorTimes(configuration.population_size, reproduction_rate)

\* faulty variant of AfterStopCheck: the loop does not break
AfterStopCheckNoBreak(stop) == "select"

\* line 227: history.push(population)
HistoryPush(records, evaluated) == Append(records, evaluated)

\* line 234: Math.floor(population.length * survival_rate)
NumberOfSurvivors(current, survival_rate) ==
  FloorTimes(Len(current), survival_rate)

\* line 241: Math.floor(population.length * reproduction_rate)
NumberOfChildren(current, reproduction_rate) ==
  FloorTimes(Len(current), reproduction_rate)

\* lines 230-232: break when the stop predicate holds
AfterStopCheck(stop) == IF stop THEN "return" ELSE "select"

\* line 223: the test of the for loop
LoopHead(g) == IF g < configuration.generations THEN "evaluate" ELSE "return"

\* lines 211-223: the history is empty, the population is created
InitRun ==
  /\ entry = "geneticAlgorithm"
  /\ args = NoCall
  /\ configuration \in Configurations
  /\ model \in Models
  /\ history = <<>>
  /\ population \in creation_function(configuration.population_size)
  /\ generation = 0
  /\ pc = LoopHead(0)
  /\ mating_pool = <<>>
  /\ next_generation = <<>>
  /\ logged = <<>>
  /\ crossing = NoCall
  /\ new_population = <<>>
  /\ sampling = NoCall
  /\ weights = <<>>
  /\ indices = <<>>
  /\ draws = 0
  /\ mockRandom = <<>>
  /\ legacy = NoLegacy
  /\ calls = NoCalls
  /\ result = NoResult
  /\ error = NoError

\* lines 225-227: evaluate the population and push it on the history; an
\* error thrown by the fitness function ends the map at that individual and
\* leaves geneticAlgorithm before the assignment
Evaluate ==
  /\ pc = "evaluate"
  /\ LET thrown == FirstThrow(population, model.fails)
     IN  IF thrown = 0
           THEN /\ population' = evaluateFitness(population, Undefined)
                /\ history' = HistoryPush(history, population')
                /\ calls' = Bump("fitness_function", Len(population))
                /\ pc' = "log"
                /\ error' = error
           ELSE /\ Throw(FitnessError)
                /\ calls' = Bump("fitness_function", thrown)
                /\ UNCHANGED <<population, history>>
  /\ UNCHANGED <<constVars, generation, mating_pool, next_generation, logged,
                 crossVars, sampleVars, randomVars, result>>

\* faulty variant of Log: the logging function is not invoked
LogSkipped ==
  /\ pc = "log"
  /\ pc' = "check_stop"
  /\ UNCHANGED <<constVars, runVars, crossVars, sampleVars, randomVars, calls,
                 result, error>>

\* line 228: logging_function(history)
Log ==
  /\ pc = "log"
  /\ logged' = history
  /\ calls' = Bump("logging_function", 1)
  /\ pc' = "check_stop"
  /\ UNCHANGED <<constVars, population, history, generation, mating_pool,
                 next_generation, crossVars, sampleVars, randomVars, result,
                 error>>

\* lines 230-232: reading .fitness of undefined throws a TypeError; the stop
\* predicate breaks out of the loop
CheckStop ==
  /\ pc = "check_stop"
  /\ LET fittest == fittestIndividual(population, configuration.ascending)
     IN  IF fittest = Undefined
           THEN Throw(TypeError) /\ calls' = calls
           ELSE /\ calls' = Bump("stop_function", 1)
                /\ pc' = AfterStopCheck(stop_function(fittest.fitness))
                /\ error' = error
  /\ UNCHANGED <<constVars, runVars, crossVars, sampleVars, randomVars, result>>

\* lines 234-239: the number of survivors and the call of the sampler
Select ==
  /\ pc = "select"
  /\ LET number_of_survivors ==
           NumberOfSurvivors(population, configuration.survival_rate)
     IN  SampleStart(population, number_of_survivors,
                     configuration.ascending, "geneticAlgorithm")
  /\ UNCHANGED <<constVars, runVars, crossVars, randomVars, calls, result>>

\* faulty variant of MatingPool: the sampler takes the sampled individuals
\* out of the array it was given, which is the last record of the history
MatingPoolSplices ==
  /\ SampleDone
  /\ sampling.caller = "geneticAlgorithm"
  /\ mating_pool' = Sample
  /\ LET kept == {i \in DOMAIN population : ~Includes(indices, i - 1)}
         Rest[i \in 0 .. Len(population)] ==
           IF i = 0
             THEN <<>>
             ELSE IF i \in kept
               THEN Append(Rest[i - 1], population[i])
               ELSE Rest[i - 1]
     IN  /\ population' = Rest[Len(population)]
         /\ history' = [history EXCEPT ![Len(history)] = population']
  /\ pc' = "reproduce"
  /\ SampleEnd
  /\ UNCHANGED <<constVars, generation, next_generation, logged, crossVars,
                 randomVars, calls, result, error>>

\* line 235: the sample is the mating pool
MatingPool ==
  /\ SampleDone
  /\ sampling.caller = "geneticAlgorithm"
  /\ mating_pool' = Sample
  /\ pc' = "reproduce"
  /\ SampleEnd
  /\ UNCHANGED <<constVars, population, history, generation, next_generation,
                 logged, crossVars, randomVars, calls, result, error>>

\* lines 241-247: the number of children and the call of crossover
Reproduce ==
  /\ pc = "reproduce"
  /\ LET number_of_children ==
           NumberOfChildren(population, configuration.reproduction_rate)
     IN  CrossoverStart(mating_pool, number_of_children,
                        configuration.ascending, "geneticAlgorithm")
  /\ UNCHANGED <<constVars, runVars, sampleVars, randomVars, calls, result>>

\* line 242: the children are the next generation
NextGeneration ==
  /\ CrossoverDone
  /\ crossing.caller = "geneticAlgorithm"
  /\ next_generation' = new_population
  /\ pc' = "mutate"
  /\ CrossoverEnd
  /\ UNCHANGED <<constVars, population, history, generation, mating_pool,
                 logged, sampleVars, randomVars, calls, result, error>>

\* lines 249-251 and the loop's generation++: the mutated children are the
\* population of the next pass
Mutate ==
  /\ pc = "mutate"
  /\ \E random_numbers \in [DOMAIN next_generation -> ModelDraws] :
       /\ next_generation' = mutate(next_generation,
                                    configuration.mutation_rate,
                                    random_numbers)
       /\ population' = next_generation'
  /\ calls' = Bump("mutation_function", Len(next_generation))
  /\ generation' = generation + 1
  /\ pc' = LoopHead(generation + 1)
  /\ UNCHANGED <<constVars, history, mating_pool, logged, crossVars,
                 sampleVars, randomVars, result, error>>

\* lines 254-257: the history and the fittest individual of the population
Return ==
  /\ pc = "return"
  /\ result' = [returned |-> TRUE,
                value |-> [history |-> history,
                           fittest |-> fittestIndividual(
                                         population,
                                         configuration.ascending)]]
  /\ pc' = "done"
  /\ UNCHANGED <<constVars, runVars, crossVars, sampleVars, randomVars, calls,
                 error>>

Init == InitRun

Next ==
  \/ Evaluate
  \/ Log
  \/ CheckStop
  \/ Select
  \/ Draw
  \/ MatingPool
  \/ Reproduce
  \/ CrossoverSample
  \/ CrossoverChild
  \/ NextGeneration
  \/ Mutate
  \/ Return

Spec == Init /\ [][Next]_vars

(***************************************************************************)
(* Calls of the exported library functions (genetic_functions.js), each on *)
(* every population of at most MaxLen evaluated individuals.               *)
(***************************************************************************)
\* the fitness values of the populations handed to the library: a negative
\* minimum, zero, and two distinct positive values
Fitnesses == {-2, 0, 1, 2}
\* the fitness values of the mating pools handed to crossover: two positive
\* values, of which some pools have a table whose rounded sums end below 1
PoolFitnesses == {1, 3}

\* the evaluated populations of at most MaxLen individuals with these fitness
\* values; the value of an individual is its place in the population
EvaluatedPopulations(fitnesses) ==
  UNION {{[i \in 1 .. length |-> [value |-> i, fitness |-> fitness[i]]] :
            fitness \in [1 .. length -> fitnesses]} :
         length \in 0 .. MaxLen}

\* the population of the tests of the expected values: fitness 1, 2, 3, 4
ExpectedValuesPopulation == [i \in 1 .. 4 |-> [value |-> i, fitness |-> i]]

\* the population of the test of negative values: fitness 1, -2, 3
NegativeValuesPopulation ==
  <<[value |-> 1, fitness |-> 1], [value |-> 2, fitness |-> -2],
    [value |-> 3, fitness |-> 3]>>

\* a population of two fitness values that are far apart: the sum of both
\* has more significant bits than a number holds and is rounded to the first
DisparatePopulation ==
  <<[value |-> 1, fitness |-> Pow2(SignificandBits + 2)],
    [value |-> 2, fitness |-> 1]>>

\* a population of positive fitness whose relative weights add up to less
\* than 1: in JavaScript the table of the fitness values 1, 4 and 2 ends
\* with 0.9999999999999999
RoundedDownPopulation ==
  <<[value |-> 1, fitness |-> 1], [value |-> 2, fitness |-> 4],
    [value |-> 3, fitness |-> 2]>>

\* the rates handed to mutate: no probability, never, always, above 1
LibraryMutationRates == {RatInt(-1), RatInt(0), RatInt(1), RatInt(2)}

\* the arguments of mutate, and the draws that Math.random() will return to
\* the mutation function, one for each individual
MutateArgs ==
  UNION {[population : {individuals},
          n : {0},
          ascending : {TRUE},
          mutation_rate : LibraryMutationRates,
          random_numbers : [DOMAIN individuals -> ModelDraws]] :
         individuals \in EvaluatedPopulations(PoolFitnesses)}

\* the populations of at most MaxLen individuals that were not evaluated
RawPopulations ==
  UNION {[1 .. length -> {[value |-> gene] : gene \in Genes}] :
         length \in 0 .. MaxLen}

\* the arguments of evaluateFitness: no target or the target 10, and a
\* fitness function that throws for no individual or for those of value 1
EvaluateArgs ==
  [population : RawPopulations,
   n : {0},
   ascending : {TRUE},
   target_value : {Undefined, [number |-> 10]},
   fails : {{}, {1}}]

\* a number written in the source as a decimal fraction
Decimal(n, d) == Fl(Rat(n, d))

\* the weights of the tests of randomUniqueIndices, a table that starts with 0
TestWeights ==
  <<RatInt(0), Decimal(1, 10), Decimal(3, 10), Decimal(6, 10), RatInt(1)>>

\* the values those tests hand to mockRandom
TestRandomNumbers ==
  {<<Decimal(5, 100), Decimal(1, 10), Decimal(38, 100), Decimal(95, 100)>>,
   <<Decimal(1, 10), Decimal(1, 10), Decimal(38, 100), Decimal(95, 100)>>}

\* the values the tests of weightedSampleWithoutReplacement hand to
\* mockRandom
SampleTestRandomNumbers ==
  {<<Decimal(1, 100), Decimal(5, 100), Decimal(38, 100)>>,
   <<Decimal(1, 100), Decimal(5, 10), Decimal(92, 100)>>}

\* the sources of random numbers of a call of randomUniqueIndices: not
\* mocked, or mocked with at most MaxMocked values that the table tells apart
MockedRandom(table) ==
  {<<>>} \cup UNION {[1 .. length -> Draws(table)] :
                       length \in 1 .. MaxMocked}

\* the arguments of randomUniqueIndices: the table of the tests, the table of
\* the population of disparate fitness or the table of a mating pool, any n,
\* and a source of random numbers
RandomUniqueIndicesArgs ==
  UNION {[population : {<<>>},
          n : -1 .. Len(table) + 1,
          ascending : {TRUE},
          weights : {table},
          mockRandom :
            IF table = TestWeights
              THEN MockedRandom(table) \cup TestRandomNumbers
              ELSE MockedRandom(table)] :
         table \in {TestWeights,
                     relativeCumulativeFitness(DisparatePopulation, TRUE)}
                    \cup {relativeCumulativeFitness(pool, ascending) :
                            pool \in EvaluatedPopulations(PoolFitnesses),
                            ascending \in BOOLEAN}}

CallArgs(function) ==
  CASE function = "mutate" -> MutateArgs
    [] function = "evaluateFitness" -> EvaluateArgs
    [] function = "randomUniqueIndices" -> RandomUniqueIndicesArgs
    [] function = "weightedSampleWithoutReplacement" ->
         [population :
            EvaluatedPopulations(Fitnesses)
              \cup EvaluatedPopulations(PoolFitnesses)
              \cup {DisparatePopulation, RoundedDownPopulation},
          n : -1 .. MaxLen + 1,
          ascending : BOOLEAN]
           \cup [population : {ExpectedValuesPopulation},
                 n : 0 .. 4,
                 ascending : BOOLEAN,
                 mockRandom : SampleTestRandomNumbers]
    [] function = "crossover" ->
         [population : EvaluatedPopulations(PoolFitnesses),
          n : 0 .. MaxChildren,
          ascending : BOOLEAN]
    [] OTHER ->
         [population :
            EvaluatedPopulations(Fitnesses)
              \cup {ExpectedValuesPopulation, NegativeValuesPopulation,
                    DisparatePopulation},
          n : {0},
          ascending : BOOLEAN]

LibraryFunctions ==
  {"fittestIndividual", "relativeCumulativeFitness", "randomUniqueIndices",
   "weightedSampleWithoutReplacement", "crossover", "mutate",
   "evaluateFitness"}

InitLibrary ==
  /\ entry \in LibraryFunctions
  /\ args \in CallArgs(entry)
  /\ configuration = NoCall
  /\ model = NoCall
  /\ pc = "call"
  /\ history = <<>>
  /\ population = <<>>
  /\ generation = 0
  /\ mating_pool = <<>>
  /\ next_generation = <<>>
  /\ logged = <<>>
  /\ crossing = NoCall
  /\ new_population = <<>>
  /\ sampling = NoCall
  /\ weights = <<>>
  /\ indices = <<>>
  /\ draws = 0
  /\ mockRandom = IF "mockRandom" \in DOMAIN args
                    THEN args.mockRandom
                    ELSE <<>>
  /\ legacy = NoLegacy
  /\ calls = NoCalls
  /\ result = NoResult
  /\ error = NoError

\* fittestIndividual(population, ascending)
CallFittestIndividual ==
  /\ pc = "call"
  /\ entry = "fittestIndividual"
  /\ result' = Returned(fittestIndividual(args.population, args.ascending))
  /\ pc' = "done"
  /\ UNCHANGED <<constVars, runVars, crossVars, sampleVars, randomVars, calls,
                 error>>

\* relativeCumulativeFitness(population, ascending)
CallRelativeCumulativeFitness ==
  /\ pc = "call"
  /\ entry = "relativeCumulativeFitness"
  /\ result' = Returned(relativeCumulativeFitness(args.population,
                                                  args.ascending))
  /\ pc' = "done"
  /\ UNCHANGED <<constVars, runVars, crossVars, sampleVars, randomVars, calls,
                 error>>

\* randomUniqueIndices(weights, n): lines 154-156 throw when n is negative
\* or exceeds the table, line 158 starts with no index
CallRandomUniqueIndices ==
  /\ pc = "call"
  /\ entry = "randomUniqueIndices"
  /\ IF args.n < 0 \/ args.n > Len(args.weights)
       THEN Throw(SampleOutOfRange) /\ UNCHANGED sampleVars
       ELSE /\ sampling' = [caller |-> "randomUniqueIndices",
                            population |-> <<>>,
                            n |-> args.n]
            /\ weights' = args.weights
            /\ indices' = <<>>
            /\ pc' = "randomUniqueIndices"
            /\ error' = error
  /\ UNCHANGED <<constVars, runVars, crossVars, randomVars, calls, result>>

\* its return (line 166)
ReturnIndices ==
  /\ SampleDone
  /\ sampling.caller = "randomUniqueIndices"
  /\ result' = Returned(indices)
  /\ pc' = "done"
  /\ UNCHANGED <<constVars, runVars, crossVars, sampleVars, randomVars, calls,
                 error>>

\* weightedSampleWithoutReplacement(population, n, ascending)
CallSample ==
  /\ pc = "call"
  /\ entry = "weightedSampleWithoutReplacement"
  /\ SampleStart(args.population, args.n, args.ascending, "call")
  /\ UNCHANGED <<constVars, runVars, crossVars, randomVars, calls, result>>

\* its return (line 102); the indices stay readable
ReturnSample ==
  /\ SampleDone
  /\ sampling.caller = "call"
  /\ result' = Returned(Sample)
  /\ pc' = "done"
  /\ UNCHANGED <<constVars, runVars, crossVars, sampleVars, randomVars, calls,
                 error>>

\* crossover(population, n, crossover_function, ascending)
CallCrossover ==
  /\ pc = "call"
  /\ entry = "crossover"
  /\ CrossoverStart(args.population, args.n, args.ascending, "call")
  /\ UNCHANGED <<constVars, runVars, sampleVars, randomVars, calls, result>>

\* its return (line 55)
ReturnChildren ==
  /\ CrossoverDone
  /\ crossing.caller = "call"
  /\ result' = Returned(new_population)
  /\ pc' = "done"
  /\ UNCHANGED <<constVars, runVars, crossVars, sampleVars, randomVars, calls,
                 error>>

\* mutate(population, mutation_function, mutation_rate)
CallMutate ==
  /\ pc = "call"
  /\ entry = "mutate"
  /\ result' = Returned(mutate(args.population, args.mutation_rate,
                               args.random_numbers))
  /\ calls' = Bump("mutation_function", Len(args.population))
  /\ pc' = "done"
  /\ UNCHANGED <<constVars, runVars, crossVars, sampleVars, randomVars, error>>

\* evaluateFitness(population, fitness_function, target_value)
CallEvaluateFitness ==
  /\ pc = "call"
  /\ entry = "evaluateFitness"
  /\ LET thrown == FirstThrow(args.population, args.fails)
     IN  IF thrown = 0
           THEN /\ result' = Returned(evaluateFitness(args.population,
                                                       args.target_value))
                /\ calls' = Bump("fitness_function", Len(args.population))
                /\ pc' = "done"
                /\ error' = error
           ELSE /\ Throw(FitnessError)
                /\ calls' = Bump("fitness_function", thrown)
                /\ result' = result
  /\ UNCHANGED <<constVars, runVars, crossVars, sampleVars, randomVars>>

NextLibrary ==
  \/ CallEvaluateFitness
  \/ CallMutate
  \/ CallFittestIndividual
  \/ CallRelativeCumulativeFitness
  \/ CallRandomUniqueIndices
  \/ ReturnIndices
  \/ CallSample
  \/ Draw
  \/ ReturnSample
  \/ CallCrossover
  \/ CrossoverSample
  \/ CrossoverChild
  \/ ReturnChildren

LibrarySpec == InitLibrary /\ [][NextLibrary]_vars

(***************************************************************************)
(* Direct calls of randomUniqueIndices with a fair source of random        *)
(* numbers, or with a source that repeats one draw: the call is made and   *)
(* returns when it can, and when draws can fall on a new index again and   *)
(* again, one does.  A draw that is rejected may be repeated forever.      *)
(***************************************************************************)
InitRandomUniqueIndices ==
  /\ InitLibrary
  /\ entry = "randomUniqueIndices"
  /\ Len(mockRandom) <= 1

NextRandomUniqueIndices ==
  \/ CallRandomUniqueIndices
  \/ Draw
  \/ ReturnIndices

\* a pass of the loop whose draw falls on an index that is not there yet
DrawOfNewIndex == Draw /\ indices' # indices

FairRandomSpec ==
  /\ InitRandomUniqueIndices
  /\ [][NextRandomUniqueIndices]_vars
  /\ WF_vars(CallRandomUniqueIndices \/ ReturnIndices)
  /\ SF_vars(DrawOfNewIndex)

(***************************************************************************)
(* Properties.                                                             *)
(***************************************************************************)
(* Calls of weightedSampleWithoutReplacement with ascending = true on a    *)
(* population of positive fitness, and beside each the same call of the    *)
(* legacy sampler: both take their random numbers from the same draws.     *)
(***************************************************************************)
InitLegacy ==
  /\ InitLibrary
  /\ entry = "weightedSampleWithoutReplacement"
  /\ args.ascending
  /\ AllPositive(args.population)

\* weightedSampleWithoutReplacement(population, n, true) and the legacy
\* weightedSampleWithoutReplacement(population, n)
CallSamplers ==
  /\ pc = "call"
  /\ entry = "weightedSampleWithoutReplacement"
  /\ SampleStart(args.population, args.n, args.ascending, "call")
  /\ legacy' = legacySampleStart(args.population, args.n)
  /\ UNCHANGED <<constVars, runVars, crossVars, draws, mockRandom, calls,
                 result>>

\* their returns (lines 102 and 256)
ReturnSamplers ==
  /\ SampleDone
  /\ sampling.caller = "call"
  /\ result' = Returned(Sample)
  /\ pc' = "done"
  /\ legacy' = legacySampleEnd(legacy, args.population)
  /\ UNCHANGED <<constVars, runVars, crossVars, sampleVars, draws, mockRandom,
                 calls, error>>

NextLegacy == \/ CallSamplers \/ Draw \/ ReturnSamplers

LegacySpec == InitLegacy /\ [][NextLegacy]_vars

(***************************************************************************)
Distinct(array) ==
  \A j, k \in DOMAIN array : j # k => array[j] # array[k]

SampleCall == entry = "weightedSampleWithoutReplacement"
ValidSampleSize == 0 <= args.n /\ args.n <= Len(args.population)

\* C1: for every evaluated population and every n from 0 to the population
\* size, whatever the draws in [0, 1), the sampler does not fail, never holds
\* an index twice, and returns exactly n individuals of the population, those
\* at the n distinct positions it accepted.
C1_SampleUnique ==
  (SampleCall /\ ValidSampleSize) =>
    /\ pc # "error"
    /\ Distinct(indices)
    /\ Len(indices) <= args.n
    /\ pc = "done" =>
         /\ Len(result.value) = args.n
         /\ Len(indices) = args.n
         /\ \A k \in 1 .. args.n :
              /\ result.value[k] # Undefined
              /\ indices[k] \in 0 .. Len(args.population) - 1
              /\ result.value[k] = At(args.population, indices[k])

\* C2: whenever geneticAlgorithm returns, it returns the whole history and,
\* as fittest, an evaluated individual of the last record of the history
\* whose fitness is the maximum (ascending) or minimum (descending) of that
\* record.
C2_ReturnsFittestOfLastRecord ==
  (entry = "geneticAlgorithm" /\ pc = "done") =>
    /\ result.returned
    /\ result.value.history = history
    /\ history # <<>>
    /\ LET last == history[Len(history)]
           fittest == result.value.fittest
       IN  /\ fittest \in Range(last)
           /\ HasFitness(fittest)
           /\ \A i \in DOMAIN last :
                IF configuration.ascending
                  THEN last[i].fitness <= fittest.fitness
                  ELSE fittest.fitness <= last[i].fitness

\* the stop predicate holds of the fittest individual of the population
StopHolds ==
  LET fittest == fittestIndividual(population, configuration.ascending)
  IN  fittest # Undefined /\ stop_function(fittest.fitness)

\* C3: when the fittest individual of the population evaluated in generation
\* g has the target fitness of the stop predicate, the run ends there: the
\* stop check goes to the return with no sampling, crossover or mutation,
\* the result holds the g + 1 records of the history (fewer than the cap
\* when g + 1 is below it) and a fittest individual of the last record whose
\* fitness is the target, and nothing happens after the return.
C3_StopsAtTarget ==
  /\ [][(pc = "check_stop" /\ StopHolds) =>
          /\ pc' = "return"
          /\ UNCHANGED <<runVars, crossVars, sampleVars, draws, result,
                         error>>
          /\ calls'.crossover_function = calls.crossover_function
          /\ calls'.mutation_function = calls.mutation_function]_vars
  /\ [][(pc = "return" /\ StopHolds) =>
          /\ pc' = "done"
          /\ UNCHANGED <<runVars, crossVars, sampleVars, draws, calls,
                         error>>
          /\ result'.returned
          /\ result'.value.history = history
          /\ Len(history) = generation + 1
          /\ generation < configuration.generations
          /\ (generation + 1 < configuration.generations =>
                Len(result'.value.history) < configuration.generations)
          /\ result'.value.fittest \in Range(history[Len(history)])
          /\ result'.value.fittest.fitness = model.target]_vars
  /\ [][pc # "done"]_vars

\* a run that reached the target in generation 1, below the cap of 3
C3_Witness ==
  /\ entry = "geneticAlgorithm"
  /\ pc = "done"
  /\ model.stops
  /\ generation = 1
  /\ configuration.generations = 3
  /\ Len(result.value.history) = 2
  /\ result.value.fittest # Undefined
  /\ result.value.fittest.fitness = model.target
  /\ calls.mutation_function = Len(population)

C5_FittestIsFirstExtremum ==
  (entry = "fittestIndividual" /\ pc = "done" /\ args.population # <<>>) =>
    \E k \in DOMAIN args.population :
      /\ result.value = args.population[k]
      /\ \A j \in DOMAIN args.population :
           IF args.ascending
             THEN /\ args.population[j].fitness <= args.population[k].fitness
                  /\ j < k =>
                       args.population[j].fitness < args.population[k].fitness
             ELSE /\ args.population[k].fitness <= args.population[j].fitness
                  /\ j < k =>
                       args.population[k].fitness < args.population[j].fitness

\* the minimum is held by the first and the last of three: the first returns
C5_Witness ==
  /\ entry = "fittestIndividual"
  /\ pc = "done"
  /\ ~args.ascending
  /\ Len(args.population) = 3
  /\ args.population[1].fitness = args.population[3].fitness
  /\ args.population[1].fitness < args.population[2].fitness
  /\ result.value = args.population[1]

\* C6: fittestIndividual of a population of zero individuals fails with an
\* error: it returns no value.
C6_EmptyPopulationFails ==
  (entry = "fittestIndividual" /\ args.population = <<>>) =>
    /\ pc \in {"call", "error"}
    /\ result = NoResult

\* C7: crossover of a pool of fewer than two individuals fails with the
\* insufficient-population error for every requested number of children,
\* zero included, with no draw consumed, no call of the crossover function
\* and nothing returned.
C7_CrossoverNeedsTwo ==
  (entry = "crossover" /\ Len(args.population) < 2) =>
    /\ pc \in {"call", "error"}
    /\ pc = "error" => error = InsufficientPopulation
    /\ draws = 0
    /\ calls.crossover_function = 0
    /\ new_population = <<>>
    /\ result = NoResult

\* no child was asked of a pool of one, and crossover failed
C7_Witness ==
  /\ entry = "crossover"
  /\ Len(args.population) = 1
  /\ args.n = 0
  /\ pc = "error"
  /\ error = InsufficientPopulation

\* C8: weightedSampleWithoutReplacement fails with an error about n when n
\* is negative or exceeds the population size, with no draw consumed, no
\* index accepted and nothing returned.
C8_InvalidSampleSizeFails ==
  (SampleCall /\ ~ValidSampleSize) =>
    /\ pc \in {"call", "error"}
    /\ pc = "error" => error \in {SampleTooLarge, SampleOutOfRange}
    /\ draws = 0
    /\ indices = <<>>
    /\ sampling = NoCall
    /\ result = NoResult

\* a negative n was refused by randomUniqueIndices
C8_Witness ==
  /\ SampleCall
  /\ args.n < 0
  /\ Len(args.population) = 2
  /\ pc = "error"
  /\ error = SampleOutOfRange

\* the tolerance of a sum of n rounded terms: n units in the last place of 1
Tolerance(n) == Rat(n, Pow2(SignificandBits - 1))

\* C9: for every non-empty evaluated population and both directions the
\* table of relativeCumulativeFitness has one entry per individual, never
\* decreases from one index to the next, and ends within the floating-point
\* tolerance of 1.
C9_TableMonotoneEndsAtOne ==
  (entry = "relativeCumulativeFitness" /\ pc = "done"
     /\ args.population # <<>>) =>
    LET table == result.value
        last == table[Len(table)]
    IN  /\ Len(table) = Len(args.population)
        /\ \A i \in 1 .. Len(table) - 1 : RatLeq(table[i], table[i + 1])
        /\ RatLeq(RatInt(1), RatAdd(last, Tolerance(Len(table))))
        /\ RatLeq(last, RatAdd(RatInt(1), Tolerance(Len(table))))

\* a descending table of three individuals, one of them of negative fitness,
\* whose rounded sums end below 1
C9_Witness ==
  /\ entry = "relativeCumulativeFitness"
  /\ pc = "done"
  /\ ~args.ascending
  /\ Len(args.population) = 3
  /\ \E i \in DOMAIN args.population : args.population[i].fitness < 0
  /\ Len(result.value) = 3
  /\ RatLess(result.value[3], RatInt(1))

\* C10: the history only grows, by the one record that each evaluation that
\* is not aborted appends: it holds one record per evaluated generation, no step removes,
\* replaces or reorders a record, and it never holds more records than the
\* generation cap.
C10_HistoryAppendOnly ==
  /\ [](entry = "geneticAlgorithm" =>
          /\ Len(history) <= configuration.generations
          /\ Len(history) \in {generation, generation + 1}
          /\ pc = "evaluate" => Len(history) = generation
          /\ pc \in {"log", "check_stop", "select", "randomUniqueIndices",
                     "reproduce", "crossover", "mutate"} =>
               Len(history) = generation + 1)
  /\ [][IF pc = "evaluate" /\ pc' # "error"
          THEN /\ Len(history') = Len(history) + 1
               /\ SubSeq(history', 1, Len(history)) = history
               /\ history'[Len(history')] = population'
               /\ Evaluated(population')
          ELSE history' = history]_vars

\* three generations were evaluated and recorded, up to the cap of three
C10_Witness ==
  /\ entry = "geneticAlgorithm"
  /\ pc = "done"
  /\ configuration.generations = 3
  /\ Len(history) = 3
  /\ history[1] # history[2]

\* C11: the logging function is invoked once per generation, right after the
\* evaluation has appended that generation's record and before the stop
\* predicate and the sampler are called for it: the k-th invocation receives
\* a history of exactly k records whose last record is the population just
\* evaluated.
C11_LoggedOncePerGeneration ==
  /\ [](entry = "geneticAlgorithm" =>
          /\ pc = "log" =>
               /\ calls.logging_function = Len(history) - 1
               /\ calls.stop_function = calls.logging_function
          /\ pc \in {"check_stop", "select", "randomUniqueIndices", "reproduce",
                     "crossover", "mutate"} =>
               /\ calls.logging_function = Len(history)
               /\ calls.logging_function = generation + 1
               /\ logged = history
          /\ pc \in {"evaluate", "return", "done"} =>
               calls.logging_function = Len(history))
  /\ [][pc = "evaluate" => pc' \in {"log", "error"}]_vars
  /\ [][pc = "log" =>
          /\ pc' = "check_stop"
          /\ calls'.logging_function = calls.logging_function + 1
          /\ logged' = history
          /\ Len(logged') = calls'.logging_function
          /\ logged'[Len(logged')] = population
          /\ Evaluated(population)
          /\ UNCHANGED <<population, history, generation, draws>>]_vars
  /\ [][calls'.logging_function # calls.logging_function => pc = "log"]_vars

\* the third invocation received the three records of a run of three
\* generations
C11_Witness ==
  /\ entry = "geneticAlgorithm"
  /\ pc = "check_stop"
  /\ generation = 2
  /\ calls.logging_function = 3
  /\ Len(logged) = 3
  /\ logged[3] = population

\* C12: with the default stop predicate, which is always false, the loop is
\* left only by its test: a run that is not aborted by an error gets to the
\* return with the generation counter at the cap, after one evaluation, one
\* record and one stop check per generation, and returns a history of
\* exactly `generations` records.
C12_DefaultNeverStopsEarly ==
  (entry = "geneticAlgorithm" /\ ~model.stops) =>
    /\ pc \in {"return", "done"} =>
         /\ generation = configuration.generations
         /\ Len(history) = configuration.generations
         /\ calls.stop_function = configuration.generations
         /\ calls.logging_function = configuration.generations
    /\ pc = "done" =>
         /\ result.returned
         /\ Len(result.value.history) = configuration.generations

\* a run of three generations under the default predicate, whose population
\* held the fitness 0 that the other models stop at
C12_Witness ==
  /\ entry = "geneticAlgorithm"
  /\ ~model.stops
  /\ pc = "done"
  /\ configuration.generations = 3
  /\ Len(result.value.history) = 3
  /\ \E i \in DOMAIN history[1] : history[1][i].fitness = model.target

\* C13: crossover of a pool of at least two individuals does not fail and
\* returns exactly n children in order; for every child the sampler is
\* called afresh on the whole pool for two parents, which are the
\* individuals at two distinct positions of the pool, and the child is
\* crossover_function of the two.
C13_CrossoverChildren ==
  (entry = "crossover" /\ Len(args.population) >= 2) =>
    /\ pc # "error"
    /\ Len(new_population) <= args.n
    /\ calls.crossover_function = Len(new_population)
    /\ sampling.caller = "crossover" =>
         /\ sampling.population = args.population
         /\ sampling.n = 2
         /\ Distinct(indices)
         /\ \A k \in DOMAIN indices :
              indices[k] \in 0 .. Len(args.population) - 1
    /\ pc = "done" =>
         /\ Len(result.value) = args.n
         /\ \A i \in 1 .. args.n :
              \E a, b \in DOMAIN args.population :
                /\ a # b
                /\ result.value[i] =
                     crossover_function(args.population[a],
                                        args.population[b])

\* C14: for every rate, a probability or not, mutate does not fail and
\* returns as many individuals as it was given, the i-th being
\* mutation_function of the i-th individual and the rate, after one call of
\* the mutation function per individual.
C14_MutateMapsInOrder ==
  entry = "mutate" =>
    /\ pc \in {"call", "done"}
    /\ error = NoError
    /\ pc = "done" =>
         /\ Len(result.value) = Len(args.population)
         /\ calls.mutation_function = Len(args.population)
         /\ \A i \in DOMAIN args.population :
              result.value[i] =
                [value |->
                   IF RatLess(args.random_numbers[i], args.mutation_rate)
                     THEN args.population[i].value + 1
                     ELSE args.population[i].value]

\* three individuals mutated at the rate 2, each to the successor of its own
\* value
C14_Witness ==
  /\ entry = "mutate"
  /\ pc = "done"
  /\ args.mutation_rate = RatInt(2)
  /\ Len(args.population) = 3
  /\ \A i \in 1 .. 3 : result.value[i].value = args.population[i].value + 1

\* C15: evaluateFitness of a population for whose individuals the fitness
\* function returns gives a sequence of the same length, the i-th element
\* being the i-th individual with the fitness that the fitness function
\* returns for it and the target, after one call of the fitness function per
\* individual; the calls go in population order, so that when the function
\* throws, it was called for the individuals up to the first that throws.
C15_EvaluateFitnessPairsInOrder ==
  entry = "evaluateFitness" =>
    /\ pc = "done" =>
         /\ \A i \in DOMAIN args.population :
              ~Throws(args.population[i], args.fails)
         /\ Len(result.value) = Len(args.population)
         /\ calls.fitness_function = Len(args.population)
         /\ \A i \in DOMAIN args.population :
              /\ result.value[i].value = args.population[i].value
              /\ result.value[i].fitness =
                   IF args.target_value = Undefined
                     THEN args.population[i].value
                     ELSE args.population[i].value + args.target_value.number
    /\ pc = "error" =>
         /\ error = FitnessError
         /\ result = NoResult
         /\ calls.fitness_function \in DOMAIN args.population
         /\ Throws(args.population[calls.fitness_function], args.fails)
         /\ \A j \in 1 .. calls.fitness_function - 1 :
              ~Throws(args.population[j], args.fails)

\* three individuals evaluated against the target 10
C15_Witness ==
  /\ entry = "evaluateFitness"
  /\ pc = "done"
  /\ args.target_value = [number |-> 10]
  /\ Len(args.population) = 3
  /\ result.value[1].fitness = 10
  /\ result.value[3].fitness = 11
  /\ calls.fitness_function = 3

\* the individuals of the first k records
RECURSIVE TotalLength(_, _)
TotalLength(records, k) ==
  IF k = 0 THEN 0 ELSE TotalLength(records, k - 1) + Len(records[k])

\* C16: when the fitness function throws for an individual of the
\* population of some generation, the run ends there with that error: the
\* fitness function was called for the individuals up to that one and for
\* none after it, the history and what the logging function has seen hold
\* the records of the generations before and none for this one, nothing is
\* returned and no step follows.
C16_FitnessErrorPropagates ==
  entry = "geneticAlgorithm" =>
    /\ \A k \in DOMAIN history : \A i \in DOMAIN history[k] :
         ~Throws(history[k][i], model.fails)
    /\ error = FitnessError =>
         /\ pc = "error"
         /\ result = NoResult
         /\ Len(history) = generation
         /\ calls.logging_function = generation
         /\ logged = history
         /\ ~Evaluated(population)
         /\ \E t \in DOMAIN population :
              /\ Throws(population[t], model.fails)
              /\ \A j \in 1 .. t - 1 : ~Throws(population[j], model.fails)
              /\ calls.fitness_function =
                   TotalLength(history, Len(history)) + t
         /\ ~ENABLED Next

\* the fitness function threw for the first of several individuals of
\* generation 1
C16_Witness ==
  /\ entry = "geneticAlgorithm"
  /\ error = FitnessError
  /\ generation = 1
  /\ Len(history) = 1
  /\ Len(population) >= 2
  /\ Throws(population[1], model.fails)
  /\ calls.fitness_function = Len(history[1]) + 1

\* the sum of the first k fitness values
RECURSIVE FitnessUpTo(_, _)
FitnessUpTo(individuals, k) ==
  IF k = 0 THEN 0 ELSE FitnessUpTo(individuals, k - 1) + individuals[k].fitness

\* the quotient (f_0 + ... + f_(k-1)) / (f_0 + ... + f_(n-1)) as a rational
Quotient(individuals, k) ==
  Rat(FitnessUpTo(individuals, k), FitnessUpTo(individuals, Len(individuals)))

\* the distance of two rationals is at most bound
Near(p, q, bound) ==
  /\ RatLeq(p, RatAdd(q, bound))
  /\ RatLeq(q, RatAdd(p, bound))

RatSub(p, q) == Rat(p[1] * q[2] - q[1] * p[2], p[2] * q[2])

\* the step of a table at the 1-based place i: what entry i adds to the
\* entry before it, the weight with which a draw falls on individual i
Step(table, i) ==
  IF i = 1 THEN table[1] ELSE RatSub(table[i], table[i - 1])

\* the fitness of individual i after the shifts that make all values positive
AdjustedFitness(individuals, i) ==
  LET lowest == MathMin(FitnessValues(individuals))
  IN  IF lowest < 0
        THEN individuals[i].fitness - lowest + 1
        ELSE IF lowest = 0
          THEN individuals[i].fitness + 1
          ELSE individuals[i].fitness

\* the sum of 1 / adjusted fitness over the first k individuals
RECURSIVE InverseUpTo(_, _)
InverseUpTo(individuals, k) ==
  IF k = 0
    THEN RatInt(0)
    ELSE RatAdd(InverseUpTo(individuals, k - 1),
                Rat(1, AdjustedFitness(individuals, k)))

C19_OnlyEvaluatedSelected ==
  entry = "geneticAlgorithm" =>
    /\ pc \in {"check_stop", "select", "return"} => Evaluated(population)
    /\ pc = "reproduce" => Evaluated(mating_pool)
    /\ sampling # NoCall => Evaluated(sampling.population)
    /\ crossing # NoCall => Evaluated(crossing.population)

\* C20: once the last permitted generation is evaluated (the history holds
\* as many records as the generation cap) the run goes from the stop check to
\* its end: no mating pool is sampled, and the crossover function and the
\* mutation function are not invoked again.
C20_NoBreedingAfterLastGeneration ==
  /\ []((entry = "geneticAlgorithm"
          /\ Len(history) = configuration.generations) =>
         pc \notin {"select", "randomUniqueIndices", "reproduce", "crossover",
                    "mutate"})
  /\ [][(entry = "geneticAlgorithm"
           /\ Len(history) = configuration.generations) =>
          /\ calls'.crossover_function = calls.crossover_function
          /\ calls'.mutation_function = calls.mutation_function]_vars

\* a pass of the while loop of randomUniqueIndices whose draw is known: the
\* source of random numbers is mocked
MockedDraw ==
  /\ pc = "randomUniqueIndices"
  /\ pc' = "randomUniqueIndices"
  /\ mockRandom # <<>>
  /\ mockRandom' # mockRandom \/ indices' # indices \/ draws' # draws

\* index is the first 0-based place of the table whose entry is strictly
\* greater than the draw, and -1 when there is no such entry
IsFirstGreater(table, draw, index) ==
  \/ /\ index = -1
     /\ \A j \in DOMAIN table : RatLeq(table[j], draw)
  \/ /\ index + 1 \in DOMAIN table
     /\ RatLess(draw, table[index + 1])
     /\ \A j \in 1 .. index : RatLeq(table[j], draw)

\* C21: every pass of the loop of randomUniqueIndices maps its draw to the
\* first index of the table whose entry is strictly greater than the draw,
\* never to the index of an entry equal to the draw, and pushes that index
\* unless it is there already; the table 0, 0.1, 0.3, 0.6, 1 with the draws
\* 0.05, 0.1, 0.38, 0.95 and n = 4 returns the indices 1, 2, 3, 4.
C21_DrawSelectsFirstGreater ==
  /\ [][MockedDraw =>
          \E index \in -1 .. Len(weights) - 1 :
            /\ IsFirstGreater(weights, Head(mockRandom), index)
            /\ \A i \in DOMAIN weights :
                 weights[i] = Head(mockRandom) => index # i - 1
            /\ indices' = IF Includes(indices, index)
                             THEN indices
                             ELSE Append(indices, index)]_vars
  /\ []((entry = "randomUniqueIndices" /\ pc = "done"
          /\ args.weights = TestWeights /\ args.n = 4
          /\ args.mockRandom = <<Decimal(5, 100), Decimal(1, 10),
                                  Decimal(38, 100), Decimal(95, 100)>>) =>
         result.value = <<1, 2, 3, 4>>)

\* the call of the test has returned 1, 2, 3, 4: its second draw, 0.1, is
\* the entry at index 1 and selected index 2
C21_Witness ==
  /\ entry = "randomUniqueIndices"
  /\ pc = "done"
  /\ args.weights = TestWeights
  /\ args.n = 4
  /\ Len(args.mockRandom) = 4
  /\ args.mockRandom[2] = args.weights[2]
  /\ draws >= MaxDraws
  /\ result.value = <<1, 2, 3, 4>>

\* C22: the sample holds the individuals at the accepted indices in the order
\* of their acceptance; a pass of the loop changes the indices only by adding
\* a new index at their end, and a pass whose draw hits an index that is
\* already there consumes the draw and leaves the indices as they are; the
\* population of fitness 1, 2, 3, 4, ascending, with the draws 0.01, 0.05,
\* 0.38 and n = 2 yields the individuals at 0 and 2 after three draws.
C22_SampleInDrawOrder ==
  /\ []((SampleCall /\ pc = "done") =>
         /\ Len(result.value) = Len(indices)
         /\ \A k \in DOMAIN indices :
              result.value[k] = At(args.population, indices[k]))
  /\ [][(pc = "randomUniqueIndices" /\ pc' = "randomUniqueIndices") =>
          \/ indices' = indices
          \/ /\ Len(indices') = Len(indices) + 1
             /\ SubSeq(indices', 1, Len(indices)) = indices
             /\ ~Includes(indices, indices'[Len(indices')])]_vars
  /\ [][(MockedDraw
           /\ Includes(indices, FindIndex(weights, Head(mockRandom)))) =>
          /\ indices' = indices
          /\ mockRandom' = Cycle(mockRandom)
          /\ draws' = Saturated(draws)]_vars
  /\ []((SampleCall /\ pc = "done" /\ args.ascending /\ args.n = 2
          /\ args.population = ExpectedValuesPopulation
          /\ mockRandom # <<>>
          /\ args.mockRandom[3] = Decimal(38, 100)) =>
         /\ result.value = <<args.population[1], args.population[3]>>
         /\ draws = 3)

\* the call of the test has returned the individuals at 0 and 2: its second
\* draw hit index 0 again and was discarded
C22_Witness ==
  /\ SampleCall
  /\ pc = "done"
  /\ args.ascending
  /\ args.n = 2
  /\ args.population = ExpectedValuesPopulation
  /\ mockRandom # <<>>
  /\ args.mockRandom[3] = Decimal(38, 100)
  /\ indices = <<0, 2>>
  /\ draws = 3
  /\ result.value = <<args.population[1], args.population[3]>>

\* the sum of the adjusted fitness of the first k individuals
RECURSIVE AdjustedUpTo(_, _)
AdjustedUpTo(individuals, k) ==
  IF k = 0
    THEN 0
    ELSE AdjustedUpTo(individuals, k - 1) + AdjustedFitness(individuals, k)

\* C23: the fitness values are adjusted in two steps, first by abs(min) when
\* a value is negative, which makes the minimum 0, then by 1 when a value is
\* 0; the adjusted value of every individual is then f - min + 1 when a value
\* was negative, f + 1 when the minimum was 0 and f otherwise, it is at least
\* 1, and the adjustment keeps the order of the fitness values; the ascending
\* table is that of the adjusted values, within the floating-point
\* tolerance, and for fitness 1, -2, 3 it is 4/11, 5/11, 1.
C23_NonPositiveFitnessShifted ==
  (entry = "relativeCumulativeFitness" /\ pc = "done"
     /\ args.population # <<>>) =>
    LET individuals == args.population
        fitness == FitnessValues(individuals)
        shifted == ShiftNegative(fitness)
        adjusted == ShiftZero(shifted)
        table == result.value
    IN  /\ (\E i \in DOMAIN fitness : fitness[i] < 0) =>
             /\ MathMin(shifted) = 0
             /\ \A i \in DOMAIN fitness :
                  shifted[i] = fitness[i] + Abs(MathMin(fitness))
        /\ (\A i \in DOMAIN fitness : fitness[i] >= 0) => shifted = fitness
        /\ \A i \in DOMAIN fitness :
             adjusted[i] =
               IF \E j \in DOMAIN shifted : shifted[j] = 0
                 THEN shifted[i] + 1
                 ELSE shifted[i]
        /\ \A i \in DOMAIN fitness :
             /\ adjusted[i] = AdjustedFitness(individuals, i)
             /\ adjusted[i] >= 1
        /\ \A i, j \in DOMAIN fitness :
             fitness[i] < fitness[j] <=> adjusted[i] < adjusted[j]
        /\ args.ascending =>
             \A i \in DOMAIN table :
               Near(table[i],
                    Rat(AdjustedUpTo(individuals, i),
                        AdjustedUpTo(individuals, Len(individuals))),
                    Tolerance(i))
        /\ (args.ascending /\ individuals = NegativeValuesPopulation) =>
             /\ Len(table) = 3
             /\ Near(table[1], Rat(4, 11), Tolerance(1))
             /\ Near(table[2], Rat(5, 11), Tolerance(2))
             /\ Near(table[3], RatInt(1), Tolerance(3))

\* the ascending table of fitness 1, -2, 3: the individual of fitness -2 has
\* the smallest step, 1/11, and not none
C23_Witness ==
  /\ entry = "relativeCumulativeFitness"
  /\ pc = "done"
  /\ args.ascending
  /\ args.population = NegativeValuesPopulation
  /\ Len(result.value) = 3
  /\ RatLess(result.value[1], result.value[2])
  /\ RatLess(Step(result.value, 2), Step(result.value, 1))
  /\ RatLess(Step(result.value, 2), Step(result.value, 3))

AllEqual(individuals) ==
  \A i, j \in DOMAIN individuals :
    individuals[i].fitness = individuals[j].fitness

\* C24: for a population of n individuals whose fitness values are all
\* equal, positive, zero or negative, the table has n entries and entry i is
\* within the floating-point tolerance of i / n, in both directions.
C24_EqualFitnessUniformTable ==
  (entry = "relativeCumulativeFitness" /\ pc = "done"
     /\ args.population # <<>> /\ AllEqual(args.population)) =>
    LET table == result.value
        n == Len(args.population)
    IN  /\ Len(table) = n
        /\ \A i \in 1 .. n : Near(table[i], Rat(i, n), Tolerance(i))

\* the descending table of three individuals of fitness -2: thirds, rounded
C24_Witness ==
  /\ entry = "relativeCumulativeFitness"
  /\ pc = "done"
  /\ ~args.ascending
  /\ Len(args.population) = 3
  /\ \A i \in 1 .. 3 : args.population[i].fitness = -2
  /\ Len(result.value) = 3
  /\ result.value[1] # Rat(1, 3)
  /\ Near(result.value[1], Rat(1, 3), Tolerance(1))

\* C25: the operations leave what they are given as it is. evaluateFitness
\* returns new records for individuals of the same values; between an
\* evaluation and the end of the mutation that follows it, the population is
\* the last record of the history and no step of the sampler, of crossover
\* or of mutate changes it; the sampler and crossover work on the population
\* and the mating pool as they were handed over, the mating pool holds
\* individuals of the population with their fitness, and it changes only
\* when a new sample is assigned; no step alters a record of the history.
C25_InputsUnchanged ==
  /\ [][/\ Len(history') >= Len(history)
        /\ SubSeq(history', 1, Len(history)) = history]_vars
  /\ [][(pc = "evaluate" /\ pc' = "log") =>
          /\ Len(population') = Len(population)
          /\ \A i \in DOMAIN population :
               /\ ~HasFitness(population[i])
               /\ HasFitness(population'[i])
               /\ population'[i].value = population[i].value]_vars
  /\ [][pc \notin {"evaluate", "mutate"} => population' = population]_vars
  /\ [](pc \in {"log", "check_stop", "select", "randomUniqueIndices",
                 "reproduce", "crossover", "mutate"} =>
          population = history[Len(history)])
  /\ [](sampling # NoCall =>
          sampling.population = IF sampling.caller = "crossover"
                                  THEN crossing.population
                                  ELSE population)
  /\ [](crossing # NoCall => crossing.population = mating_pool)
  /\ [](pc \in {"reproduce", "crossover"} =>
          \A k \in DOMAIN mating_pool :
            mating_pool[k] \in Range(population) \cup {Undefined})
  /\ [][mating_pool' # mating_pool =>
          /\ pc = "randomUniqueIndices"
          /\ pc' = "reproduce"
          /\ mating_pool' = IndividualsAt(population, indices)]_vars

\* the second generation is being bred: a child is there, and the record of
\* the first generation is in the history
C25_Witness ==
  /\ entry = "geneticAlgorithm"
  /\ pc = "crossover"
  /\ Len(history) = 2
  /\ new_population # <<>>
  /\ population = history[2]
  /\ history[1] # history[2]

\* C26: a call of randomUniqueIndices with a table that starts with the
\* sentinel 0, whose population size is the length of the table minus 1, and
\* with an n that is negative or exceeds that population size throws the
\* range error and does not start the loop.
C26_SentinelTableSizeChecked ==
  (entry = "randomUniqueIndices"
     /\ args.weights # <<>>
     /\ args.weights[1] = RatInt(0)
     /\ (args.n < 0 \/ args.n > Len(args.weights) - 1)) =>
    /\ pc \in {"call", "error"}
    /\ pc = "error" => error = SampleOutOfRange

\* C27: for every non-empty population and both directions every individual
\* has a positive weight: the first entry of the table is greater than 0 and
\* every entry is strictly greater than the entry before it, so that some
\* draw selects each position.
C27_EveryWeightPositive ==
  (entry = "relativeCumulativeFitness" /\ pc = "done"
     /\ args.population # <<>>) =>
    LET table == result.value
    IN  /\ Len(table) = Len(args.population)
        /\ RatLess(RatInt(0), table[1])
        /\ \A i \in 1 .. Len(table) - 1 : RatLess(table[i], table[i + 1])
        /\ \A i \in DOMAIN table :
             \E random_number \in Draws(table) :
               FindIndex(table, random_number) = i - 1

\* the population size of a table: a table that starts with 0 has one entry
\* more than the population has individuals
PopulationSizeOf(table) ==
  IF table # <<>> /\ table[1] = RatInt(0) THEN Len(table) - 1 ELSE Len(table)

\* every interval of the table that belongs to an individual holds a draw
IntervalsHit(table) ==
  \A index \in Len(table) - PopulationSizeOf(table) .. Len(table) - 1 :
    \E random_number \in Draws(table) : FindIndex(table, random_number) = index

\* C28: in the loop of randomUniqueIndices the number of accepted indices
\* never decreases and never exceeds n; with a fair source of random numbers,
\* one that hits every interval of the table again and again, a call with
\* 0 <= n <= population size reaches n indices and returns them; with a
\* source that repeats one draw forever a call with n >= 2 never has more
\* than one index and never returns.
C28_LoopTerminatesWhenFair ==
  /\ [][(pc = "randomUniqueIndices" /\ pc' = "randomUniqueIndices") =>
          /\ Len(indices') >= Len(indices)
          /\ SubSeq(indices', 1, Len(indices)) = indices
          /\ Len(indices') <= sampling.n]_vars
  /\ (pc = "call" /\ mockRandom = <<>> /\ IntervalsHit(args.weights)
        /\ 0 <= args.n /\ args.n <= PopulationSizeOf(args.weights))
       ~> (pc = "done" /\ Len(result.value) = args.n /\ indices = result.value)
  /\ []((Len(args.mockRandom) = 1 /\ 2 <= args.n
          /\ args.n <= PopulationSizeOf(args.weights)) =>
         /\ pc # "done"
         /\ Len(indices) <= 1)

\* a call for two indices of the table of the tests has returned after more
\* draws than indices: a draw was rejected on the way
C28_Witness ==
  /\ entry = "randomUniqueIndices"
  /\ pc = "done"
  /\ mockRandom = <<>>
  /\ args.weights = TestWeights
  /\ args.n = 2
  /\ Len(result.value) = 2
  /\ draws > args.n

\* C29: for a population whose fitness values are all positive and any n,
\* the legacy sampler and the sampler with ascending = true, fed the same
\* draws, throw the same error or none, are in their loops together after
\* the same number of draws with as many indices, have selected the same
\* individuals in the same order, and return the same sample.
C29_LegacySamplerEquivalent ==
  (SampleCall /\ args.ascending /\ AllPositive(args.population)
     /\ pc # "call") =>
    /\ legacy.error = error
    /\ legacy.pc = pc
    /\ legacy.draws = draws
    /\ pc = "randomUniqueIndices" =>
         /\ legacy.n = sampling.n
         /\ Len(legacy.indices) = Len(indices)
         /\ legacyIndividualsAt(args.population, legacy.indices)
              = IndividualsAt(args.population, indices)
         /\ Len(legacy.weights) = Len(weights) + 1
    /\ pc = "done" => legacy.result = result

\* both samplers have returned the first and the third individual of the
\* population of the tests after the three draws 0.01, 0.05 and 0.38
C29_Witness ==
  /\ SampleCall
  /\ pc = "done"
  /\ args.population = ExpectedValuesPopulation
  /\ args.ascending
  /\ args.n = 2
  /\ "mockRandom" \in DOMAIN args
  /\ args.mockRandom = <<Decimal(1, 100), Decimal(5, 100), Decimal(38, 100)>>
  /\ legacy.pc = "done"
  /\ legacy.draws = 3
  /\ legacy.indices = <<1, 3>>
  /\ indices = <<0, 2>>
  /\ legacy.result.value
       = <<ExpectedValuesPopulation[1], ExpectedValuesPopulation[3]>>
  /\ result = legacy.result

\* the run is between the stop check that did not stop and the call of
\* crossover, with fewer than two survivors to select
TooFewSurvivors ==
  /\ entry = "geneticAlgorithm"
  /\ NumberOfSurvivors(population, configuration.survival_rate) < 2
  /\ \/ pc \in {"select", "reproduce"}
     \/ pc = "randomUniqueIndices" /\ sampling.caller = "geneticAlgorithm"

\* the steps that are left before the call of crossover
StepsToCrossover ==
  CASE pc = "select" -> 4
    [] pc = "randomUniqueIndices" -> IF Len(indices) < sampling.n THEN 3 ELSE 2
    [] pc = "reproduce" -> 1
    [] OTHER -> 0

\* a step of a generation with too few survivors: it invokes no function
\* of the model, records and returns nothing, stays in the generation and
\* comes nearer to the call of crossover
AbortingStep ==
  /\ calls' = calls
  /\ history' = history
  /\ population' = population
  /\ generation' = generation
  /\ result' = NoResult
  /\ pc' \in {"randomUniqueIndices", "reproduce", "error"}
  /\ StepsToCrossover' < StepsToCrossover

\* C30 as claimed: a generation that did not stop and has fewer than two
\* survivors to select goes on, step by step, to the error of crossover
\* and to nothing else.
C30_TooFewSurvivorsFailInCrossover ==
  [][TooFewSurvivors =>
       /\ AbortingStep
       /\ pc' = "error" =>
            /\ pc = "reproduce"
            /\ error' = InsufficientPopulation
       /\ pc = "reproduce" => pc' = "error"]_vars

\* C30: a generation that did not stop and has fewer than two survivors to
\* select goes on, step by step, to an error and to nothing else: to the
\* error of crossover when the number of survivors is 0 or 1, and to the
\* error of randomUniqueIndices, before crossover is called, when it is
\* negative.
C30_TooFewSurvivorsAbort ==
  [][TooFewSurvivors =>
       LET number_of_survivors ==
             NumberOfSurvivors(population, configuration.survival_rate)
       IN  /\ AbortingStep
           /\ pc' = "error" =>
                IF number_of_survivors < 0
                  THEN /\ pc = "select"
                       /\ error' = SampleOutOfRange
                  ELSE /\ pc = "reproduce"
                       /\ error' = InsufficientPopulation
           /\ (pc = "select" /\ number_of_survivors < 0) => pc' = "error"
           /\ pc = "reproduce" => pc' = "error"]_vars

\* the second generation had one individual, which survived alone: the run
\* has ended with the error of crossover, two populations recorded
C30_Witness ==
  /\ entry = "geneticAlgorithm"
  /\ pc = "error"
  /\ error = InsufficientPopulation
  /\ generation = 1
  /\ Len(history) = 2
  /\ Len(population) = 1
  /\ NumberOfSurvivors(population, configuration.survival_rate) = 1
  /\ Len(mating_pool) = 1
  /\ calls["stop_function"] = 2
  /\ result = NoResult

====
